---- MODULE Spec2Model ----
(***************************************************************************)
(* BackgroundPublish<NumQueues>: a bounded, priority-ordered, rate-limited *)
(* publish queue drained by one background thread                          *)
(* (src/src/BackgroundPublish.h).                                          *)
(*                                                                         *)
(* Threads of the model: the callers of publish(), the                     *)
(* controller (the caller of start(), stop() and cleanup()), the worker    *)
(* (BackgroundPublish::thread), the cloud transport that resolves the      *)
(* promise of Particle.publish(), and the millisecond clock.               *)
(***************************************************************************)
EXTENDS Integers, Sequences, FiniteSets, Bags, TLC

\* ---- program constants ----
NumQueues == 2
burst_rate == 2
process_interval == 1000

\* ---- bounds of the model ----
\* the constructor argument max_entries
maxEntries == 2
\* the number of publish() calls that are accepted
MaxRequests == 3
\* the clock runs up to MaxTicks * process_interval
MaxTicks == 2
\* particle::protocol::MAX_EVENT_NAME_LENGTH and MAX_EVENT_DATA_LENGTH, scaled down
MAX_EVENT_NAME_LENGTH == 2
MAX_EVENT_DATA_LENGTH == 3

\* the clock advances in steps of half the rate-limit interval
ClockStep == process_interval \div 2

\* the threads that call publish()
Callers == {"p1", "p2"}
Levels == 0 .. (NumQueues - 1)
Priorities == 0 .. NumQueues
Slots == 0 .. (burst_rate - 1)
TransportErrors == {"NONE", "LIMIT_EXCEEDED"}
CANCELLED == "CANCELLED"
NoEvent == [id |-> 0, level |-> 0, cb |-> FALSE]
NoCall == [level |-> 0, cb |-> FALSE, pc |-> "none"]

\* C strings are the sequences of their characters; Str(c, n) is n times the character c
Str(c, n) == [k \in 1 .. n |-> c]
\* const char *data = nullptr: a value that is no string of characters
NULL == <<"nullptr">>
\* what the caller's buffers hold: a name and no payload, a name and a payload that fill
\* the request, a name and a payload that are one character too long for it
FirstBuffer == [name |-> Str("a", 1), data |-> NULL, context |-> NULL]
Buffers ==
    {FirstBuffer,
     [name |-> Str("b", MAX_EVENT_NAME_LENGTH), data |-> Str("x", MAX_EVENT_DATA_LENGTH),
      context |-> <<"this">>],
     [name |-> Str("c", MAX_EVENT_NAME_LENGTH + 1),
      data |-> Str("y", MAX_EVENT_DATA_LENGTH + 1), context |-> <<"that">>]}

VARIABLES
    running,    \* bool running
    queues,     \* std::array<std::queue<publish_event_t>, NumQueues> _queues
    mutex,      \* RecursiveMutex _mutex: "free" or the thread that holds it
    wpc,        \* position of the worker thread: "none" (no thread), "top" (while(running)),
                \* "scan" (in the range-for), "wait" (in process_publish),
                \* "denied" (in delay(2), the rate test having failed)
    now,        \* thread(): auto now
    publish_t,  \* thread(): system_tick_t publish_t[burst_rate]
    i,          \* thread(): std::size_t i
    wq,         \* thread(): index of the queue the range-for is at
    event,      \* thread(): publish_event_t event (the copy being dispatched)
    promise,    \* process_publish(): "idle", "pending", or the error the promise resolved to
    cpc,        \* position of the controller: "idle", "join" (in stop), "cleanup"
    cq,         \* cleanup(): index of the queue the range-for is at
    pending,    \* the publish() calls that stand at the lock_guard: a bag of their
                \* arguments (which thread makes which call makes no difference)
    last,       \* history: the publish() call that returned last: its arguments and the
                \* return statement it left by: "stopped", "badprio", "full" (return
                \* false), "ok" (return true)
    clock,      \* millis()
    accepted,   \* history: the number of publish() calls accepted so far (request ids)
    sent,       \* history: the calls of Particle.publish(), in order
    cbs,        \* history: the completion callbacks invoked, in order
    tDenied,    \* history: the clock at the last pass the rate test refused (-1: none)
    wSeen,      \* history: the value of accepted when the current pass read the clock
    buf,        \* the caller's buffers: what name and data of its next publish() point at
    store,      \* publish_event_t::event_name, event_data of the request of each id
    given,      \* history: what the caller's buffers held at the publish() of each id
    handed,     \* history: the names and payloads passed to Particle.publish() ("transport")
                \* and to completion callbacks ("callback"), with the id of the request
    spc,        \* position of a second caller of start(): "idle", or "create" (it has read
                \* running as false and stands before running = true)
    extra,      \* the worker threads that exist besides the one wpc follows
    late,       \* history: the publishes the worker thread began with running cleared
    emptied,    \* history: the worker stands at the top of its loop after a pass that
                \* passed the rate test and found every queue empty
    tracing     \* whether the histories late and emptied are kept: they are, in the
                \* specifications of the claims that are about them

vars == <<running, queues, mutex, wpc, now, publish_t, i, wq, event, promise,
          cpc, cq, pending, clock, accepted, last, sent, cbs, wSeen, tDenied,
          buf, store, given, handed, spc, extra, late, emptied, tracing>>

workerVars == <<wpc, now, publish_t, i, wq, event, promise>>
ctlVars == <<cpc, cq>>
histVars == <<accepted, last, sent, cbs, wSeen, tDenied>>
copyVars == <<buf, store, given, handed>>
raceVars == <<spc, extra>>

\* ---- helpers ----
Range(s) == {s[k] : k \in 1 .. Len(s)}
Queued(qs) == UNION {Range(qs[l]) : l \in Levels}
Ids(s) == {s[k].id : k \in 1 .. Len(s)}
AllEmpty(qs) == \A l \in Levels : qs[l] = <<>>
FreshWindow == [s \in Slots |-> 0]

\* ---- variants of the definitions below that differ from the code in one place; a
\* ---- property that tells the code from its variant depends on that place
\* the priority test off by one: priority > NumQueues
PriorityValid_le(priority) == priority <= NumQueues
\* the size test off by one: size() > maxEntries
QueueFull_gt(q) == Len(q) > maxEntries
\* the size test off by one the other way: size() + 1 >= maxEntries
QueueFull_early(q) == Len(q) + 1 >= maxEntries
\* a push to the front of the queue
Enqueue_front(qs, level, ev) == [qs EXCEPT ![level] = <<ev>> \o @]
\* the newest request instead of the oldest
Front_back(q) == q[Len(q)]
\* publish() without the test of running
PublishPrecheck_norun(run, priority) ==
    IF priority >= NumQueues THEN "badprio" ELSE "lock"
\* the queues visited from the last to the first
QueueAt_rev(k) == NumQueues - 1 - k
\* emplace() before the size test
PublishQueues_always(qs, level, ev) == [qs EXCEPT ![level] = Append(@, ev)]

\* subtraction of system_tick_t (uint32_t): the clock of the model stays far below
\* 2^32 and never runs backwards, so a >= b and the unsigned difference is a - b
TickSub(a, b) == a - b

\* the rate test off by one: now - publish_t[i] > process_interval
Admit_gt(t, stamp) == t - stamp > process_interval

\* the rate test with half the interval
Admit_half(t, stamp) == t - stamp >= process_interval \div 2

\* thread(): if(now - publish_t[i] >= process_interval)
Admit(t, stamp) == TickSub(t, stamp) >= process_interval

\* publish(): if (priority >= NumQueues) return false
PriorityValid(priority) == priority < NumQueues

\* publish(): if(_queues[priority].size() >= maxEntries) return false
QueueFull(q) == Len(q) >= maxEntries

\* publish(): _queues[priority].emplace(); fill _queues[priority].back()
Enqueue(qs, level, ev) == [qs EXCEPT ![level] = Append(@, ev)]

\* thread()/cleanup(): queue.front()
Front(q) == Head(q)

\* a pop() that removes nothing
Pop_none(qs, level) == qs

\* thread()/cleanup(): queue.pop()
Pop(qs, level) == [qs EXCEPT ![level] = Tail(@)]

\* publish(): the checks made before the mutex is taken, and where they lead
PublishPrecheck(run, priority) ==
    IF ~run THEN "stopped"
    ELSE IF ~PriorityValid(priority) THEN "badprio"
    ELSE "lock"

\* publish(): the return statement reached under the mutex
PublishReturn(qs, level) == IF QueueFull(qs[level]) THEN "full" ELSE "ok"

\* the value publish() returns at each return statement
Returned(pc) == pc = "ok"

\* a scan that looks at queue 0 at every turn
QueueAt_zero(k) == 0

\* for(auto &queue : _queues): the queue visited at the k-th turn
QueueAt(k) == k

\* publish(): the queues it leaves behind
PublishQueues(qs, level, ev) ==
    IF QueueFull(qs[level]) THEN qs ELSE Enqueue(qs, level, ev)

\* a cleanup() that looks at the first queue only
NextNonEmpty_first(qs, from) == IF from = 0 /\ qs[0] # <<>> THEN 0 ELSE NumQueues

\* cleanup(): the queue the range-for is at when it next finds a request
NextNonEmpty(qs, from) ==
    IF \E l \in Levels : l >= from /\ qs[l] # <<>>
    THEN CHOOSE l \in Levels : /\ l >= from /\ qs[l] # <<>>
                               /\ \A k \in Levels : (k >= from /\ k < l) => qs[k] = <<>>
    ELSE NumQueues

NextId == accepted + 1

Min(a, b) == IF a <= b THEN a ELSE b

\* std::strncpy(dst, src, size): what dst holds in its first size characters
strncpy(src, size) == SubSeq(src, 1, Min(Len(src), size))

\* dst[size - 1] = '\0': the string that dst holds afterwards
Terminate(dst, size) == SubSeq(dst, 1, Min(Len(dst), size - 1))

\* publish(): the fill of event.event_name
CopyName(name) ==
    Terminate(strncpy(name, MAX_EVENT_NAME_LENGTH + 1), MAX_EVENT_NAME_LENGTH + 1)

\* publish(): the fill of event.event_data
CopyData(data) ==
    IF data # NULL
    THEN Terminate(strncpy(data, MAX_EVENT_DATA_LENGTH + 1), MAX_EVENT_DATA_LENGTH + 1)
    ELSE <<>>

\* variant: a request that keeps the caller's pointer; reading it reads the caller's buffer
event_name_ptr(stored, caller) == caller

\* event.event_name, event.event_data as process_publish() and cleanup() read them: the
\* characters stored in the request, whatever the caller's buffers hold by then
event_name(stored, caller) == stored
event_data(stored, caller) == stored

\* variant: the name, payload and context of the request stored last
HandOver_latest(id, to) ==
    [id |-> id, to |-> to,
     name |-> store[Len(store)].name,
     data |-> store[Len(store)].data,
     context |-> IF to = "callback" THEN store[Len(store)].context ELSE NULL]

\* the name and payload of request id as passed on to the transport or to a callback.
\* What process_publish() and cleanup() pass on: the entry's own arrays and, to a
\* callback, the entry's event_context; Particle.publish() takes no context.
HandOver(id, to) ==
    [id |-> id, to |-> to,
     name |-> event_name(store[id].name, buf.name),
     data |-> event_data(store[id].data, buf.data),
     context |-> IF to = "callback" THEN store[id].context ELSE NULL]

InitState ==
    /\ running = FALSE
    /\ queues = [l \in Levels |-> <<>>]
    /\ mutex = "free"
    /\ wpc = "none"
    /\ now = 0
    /\ publish_t = FreshWindow
    /\ i = 0
    /\ wq = 0
    /\ event = NoEvent
    /\ promise = "idle"
    /\ cpc = "idle"
    /\ cq = 0
    /\ pending = EmptyBag
    /\ clock = 0
    /\ accepted = 0
    /\ last = NoCall
    /\ sent = <<>>
    /\ cbs = <<>>
    /\ wSeen = 0
    /\ tDenied = -1
    /\ buf = FirstBuffer
    /\ store = <<>>
    /\ given = <<>>
    /\ handed = {}
    /\ spc = "idle"
    /\ extra = 0
    /\ late = 0
    /\ emptied = FALSE

Init == InitState /\ tracing = FALSE

\* the same state, with the histories late and emptied kept from here on
InitTraced == InitState /\ tracing = TRUE

\* ---- the clock ----
Tick(d) ==
    /\ clock + d <= MaxTicks * process_interval
    /\ clock' = clock + d
    /\ UNCHANGED <<running, queues, mutex, workerVars, ctlVars, pending, histVars>>
    /\ UNCHANGED copyVars
    /\ UNCHANGED <<raceVars, late, emptied>>
    /\ UNCHANGED tracing

\* the clock advances while the worker sleeps after the rate test failed
TickAsleep(d) ==
    /\ wpc = "denied"
    /\ Tick(d)

\* ---- the callers' buffers ----
\* a caller that stands in no call of publish() writes a new name and payload into the
\* buffers it passed, or lets them go and uses others
Overwrite(b) ==
    /\ pending = EmptyBag
    /\ b # buf
    /\ buf' = b
    /\ UNCHANGED <<running, queues, mutex, workerVars, ctlVars, pending, clock, histVars,
                   store, given, handed>>
    /\ UNCHANGED <<raceVars, late, emptied>>
    /\ UNCHANGED tracing

\* ---- publish() ----
\* if (!running) return false; if (priority >= NumQueues) return false;
\* n: the number of threads that call publish()
PublishBegin(n, priority, cb) ==
    /\ BagCardinality(pending) < n
    /\ accepted + BagCardinality(pending) < MaxRequests
    /\ LET pre == PublishPrecheck(running, priority) IN
       IF pre = "lock"
       THEN /\ pending' = pending (+) SetToBag({[level |-> priority, cb |-> cb]})
            /\ UNCHANGED last
       ELSE /\ last' = [level |-> priority, cb |-> cb, pc |-> pre]
            /\ UNCHANGED pending
    /\ UNCHANGED <<running, queues, mutex, workerVars, ctlVars, clock,
                   accepted, sent, cbs, wSeen, tDenied>>
    /\ UNCHANGED copyVars
    /\ UNCHANGED <<raceVars, late, emptied>>
    /\ UNCHANGED tracing

\* std::lock_guard lock(_mutex); the size test; emplace(); return
PublishLocked(arg) ==
    /\ BagIn(arg, pending)
    /\ mutex = "free"
    /\ LET ev == [id |-> NextId, level |-> arg.level, cb |-> arg.cb]
           ret == PublishReturn(queues, arg.level) IN
       /\ queues' = PublishQueues(queues, arg.level, ev)
       /\ last' = [level |-> arg.level, cb |-> arg.cb, pc |-> ret]
       /\ accepted' = IF Returned(ret) THEN accepted + 1 ELSE accepted
    /\ pending' = pending (-) SetToBag({arg})
    /\ UNCHANGED <<running, mutex, workerVars, ctlVars, clock, sent, cbs, wSeen, tDenied>>
    /\ IF Returned(PublishReturn(queues, arg.level))
       THEN /\ store' = Append(store, [name |-> CopyName(buf.name),
                                        data |-> CopyData(buf.data),
                                        context |-> buf.context])
            /\ given' = Append(given, buf)
       ELSE UNCHANGED <<store, given>>
    /\ UNCHANGED <<buf, handed>>
    /\ UNCHANGED <<raceVars, late, emptied>>
    /\ UNCHANGED tracing

\* ---- start() / stop() / cleanup() ----
\* start() called by a second thread, in two steps, since no lock covers it:
\* if (running) return; ...
StartTest ==
    /\ spc = "idle"
    /\ spc' = IF running THEN "idle" ELSE "create"
    /\ UNCHANGED <<running, queues, mutex, workerVars, ctlVars, pending, clock, histVars,
                   copyVars, extra, late, emptied>>
    /\ UNCHANGED tracing

\* ... running = true; _thread = Thread(...): the thread is created whether or not
\* another one runs thread() already
StartCreate ==
    /\ spc = "create"
    /\ spc' = "idle"
    /\ running' = TRUE
    /\ IF wpc = "none"
       THEN /\ wpc' = "top"
            /\ publish_t' = FreshWindow
            /\ i' = 0
            /\ late' = 0
            /\ UNCHANGED extra
       ELSE /\ extra' = extra + 1
            /\ UNCHANGED <<wpc, publish_t, i, late>>
    /\ UNCHANGED <<now, wq, event, promise>>
    /\ UNCHANGED <<queues, mutex, ctlVars, pending, clock, histVars, copyVars, emptied>>
    /\ UNCHANGED tracing

\* variant: start() without the test of running, a new thread on every call
Start_respawn ==
    /\ cpc = "idle"
    /\ running' = TRUE
    /\ wpc' = "top"
    /\ publish_t' = FreshWindow
    /\ i' = 0
    /\ UNCHANGED <<now, wq, event, promise>>
    /\ UNCHANGED <<queues, mutex, ctlVars, pending, clock, histVars>>
    /\ UNCHANGED copyVars
    /\ late' = 0
    /\ emptied' = FALSE
    /\ UNCHANGED raceVars
    /\ UNCHANGED tracing

Start ==
    /\ cpc = "idle"
    /\ IF running
       THEN UNCHANGED <<running, workerVars>>
       ELSE /\ running' = TRUE
            /\ wpc' = "top"
            /\ publish_t' = FreshWindow
            /\ i' = 0
            /\ UNCHANGED <<now, wq, event, promise>>
    /\ UNCHANGED <<queues, mutex, ctlVars, pending, clock, histVars>>
    /\ UNCHANGED copyVars
    /\ late' = IF running THEN late ELSE 0
    /\ emptied' = IF running THEN emptied ELSE FALSE
    /\ UNCHANGED raceVars
    /\ UNCHANGED tracing

\* variant: a stop() that leaves running set and goes on to the join
Stop_keep ==
    /\ cpc = "idle"
    /\ running
    /\ cpc' = "join"
    /\ UNCHANGED <<running, queues, mutex, workerVars, cq, pending, clock, histVars>>
    /\ UNCHANGED copyVars
    /\ UNCHANGED <<raceVars, late, emptied>>
    /\ UNCHANGED tracing

\* stop(): if (!running) return; running = false; then the join
Stop ==
    /\ cpc = "idle"
    /\ IF ~running
       THEN UNCHANGED <<running, cpc>>
       ELSE /\ running' = FALSE
            /\ cpc' = "join"
    /\ UNCHANGED <<queues, mutex, workerVars, cq, pending, clock, histVars>>
    /\ UNCHANGED copyVars
    /\ UNCHANGED <<raceVars, late, emptied>>
    /\ UNCHANGED tracing

\* cleanup(): take the mutex and find the first request, or return at once
CleanupEnter ==
    /\ mutex = "free"
    /\ LET q == NextNonEmpty(queues, 0) IN
       IF q < NumQueues
       THEN /\ mutex' = "ctl"
            /\ cpc' = "cleanup"
            /\ cq' = q
       ELSE /\ mutex' = "free"
            /\ cpc' = "idle"
            /\ cq' = 0
    /\ UNCHANGED <<running, queues, workerVars, pending, clock, histVars>>
    /\ UNCHANGED copyVars
    /\ UNCHANGED <<raceVars, late, emptied>>
    /\ UNCHANGED tracing

\* variant: stop() without the join, cleanup() at once
Join_nowait ==
    /\ cpc = "join"
    /\ CleanupEnter

\* stop(): _thread.join() returns once the worker has left thread(); cleanup() follows
Join ==
    /\ cpc = "join"
    /\ wpc = "none"
    /\ CleanupEnter

\* cleanup() called directly
Cleanup ==
    /\ cpc = "idle"
    /\ CleanupEnter

\* cleanup(): one turn of the while loop: callback with CANCELLED, then pop
CleanupItem ==
    /\ cpc = "cleanup"
    /\ LET ev == Front(queues[cq])
           qs == Pop(queues, cq)
           q == NextNonEmpty(qs, cq) IN
       /\ cbs' = IF ev.cb THEN Append(cbs, [id |-> ev.id, level |-> ev.level,
                                              status |-> CANCELLED])
                  ELSE cbs
       /\ queues' = qs
       /\ IF q < NumQueues
          THEN /\ cq' = q
               /\ UNCHANGED <<mutex, cpc>>
          ELSE /\ cq' = 0
               /\ mutex' = "free"
               /\ cpc' = "idle"
    /\ UNCHANGED <<running, workerVars, pending, clock, accepted, last, sent, wSeen, tDenied>>
    /\ handed' = IF Front(queues[cq]).cb
                  THEN handed \cup {HandOver(Front(queues[cq]).id, "callback")}
                  ELSE handed
    /\ UNCHANGED <<buf, store, given>>
    /\ UNCHANGED <<raceVars, late, emptied>>
    /\ UNCHANGED tracing

\* variant: a worker that leaves its loop only once the queues are empty
WorkerLoop_drain ==
    /\ wpc = "top"
    /\ IF ~running /\ AllEmpty(queues)
       THEN /\ wpc' = "none"
            /\ publish_t' = FreshWindow
            /\ i' = 0
            /\ UNCHANGED <<now, wq, wSeen, tDenied>>
       ELSE /\ now' = clock
            /\ UNCHANGED <<publish_t, i>>
            /\ IF Admit(clock, publish_t[i])
               THEN /\ wpc' = "scan"
                    /\ wq' = 0
                    /\ wSeen' = accepted
                    /\ UNCHANGED tDenied
               ELSE /\ wpc' = "denied"
                    /\ tDenied' = clock
                    /\ UNCHANGED <<wq, wSeen>>
    /\ UNCHANGED <<running, queues, mutex, event, promise,
                   ctlVars, pending, clock, accepted, last, sent, cbs>>
    /\ UNCHANGED copyVars
    /\ late' = IF running \/ ~AllEmpty(queues) THEN late ELSE 0
    /\ emptied' = FALSE
    /\ UNCHANGED raceVars
    /\ UNCHANGED tracing

\* cleanup(): one turn of the while loop whose callback calls publish() again, at
\* the given priority and with a callback: the calling thread holds the recursive
\* mutex already, so publish() runs through to its return inside the turn; the
\* request at the front is popped after the callback has returned
CleanupItemRepublish(priority) ==
    /\ cpc = "cleanup"
    /\ Front(queues[cq]).cb
    /\ accepted + BagCardinality(pending) < MaxRequests
    /\ LET ev == Front(queues[cq])
           pre == PublishPrecheck(running, priority)
           ret == IF pre = "lock" THEN PublishReturn(queues, priority) ELSE pre
           new == [id |-> NextId, level |-> priority, cb |-> TRUE]
           pub == IF pre = "lock" THEN PublishQueues(queues, priority, new) ELSE queues
           qs == Pop(pub, cq)
           q == NextNonEmpty(qs, cq) IN
       /\ last' = [level |-> priority, cb |-> TRUE, pc |-> ret]
       /\ accepted' = IF Returned(ret) THEN accepted + 1 ELSE accepted
       /\ IF Returned(ret)
          THEN /\ store' = Append(store, [name |-> CopyName(buf.name),
                                           data |-> CopyData(buf.data),
                                           context |-> buf.context])
               /\ given' = Append(given, buf)
          ELSE UNCHANGED <<store, given>>
       /\ cbs' = Append(cbs, [id |-> ev.id, level |-> ev.level, status |-> CANCELLED])
       /\ handed' = handed \cup {HandOver(ev.id, "callback")}
       /\ queues' = qs
       /\ IF q < NumQueues
          THEN /\ cq' = q
               /\ UNCHANGED <<mutex, cpc>>
          ELSE /\ cq' = 0
               /\ mutex' = "free"
               /\ cpc' = "idle"
    /\ UNCHANGED <<running, workerVars, pending, clock, sent, wSeen, tDenied>>
    /\ UNCHANGED buf
    /\ UNCHANGED <<raceVars, late, emptied>>
    /\ UNCHANGED tracing

\* ---- thread() ----
\* while(running) { auto now {millis()}; if(now - publish_t[i] >= process_interval) ...
WorkerLoop ==
    /\ wpc = "top"
    /\ IF ~running
       THEN /\ wpc' = "none"
            /\ publish_t' = FreshWindow
            /\ i' = 0
            /\ UNCHANGED <<now, wq, wSeen, tDenied>>
       ELSE /\ now' = clock
            /\ UNCHANGED <<publish_t, i>>
            /\ IF Admit(clock, publish_t[i])
               THEN /\ wpc' = "scan"
                    /\ wq' = 0
                    /\ wSeen' = accepted
                    /\ UNCHANGED tDenied
               ELSE /\ wpc' = "denied"
                    /\ tDenied' = clock
                    /\ UNCHANGED <<wq, wSeen>>
    /\ UNCHANGED <<running, queues, mutex, event, promise,
                   ctlVars, pending, clock, accepted, last, sent, cbs>>
    /\ UNCHANGED copyVars
    /\ late' = IF running THEN late ELSE 0
    /\ emptied' = FALSE
    /\ UNCHANGED raceVars
    /\ UNCHANGED tracing

\* variant: no _mutex.unlock() on the path that pops a request
Unlock_popped(found) == IF found THEN "worker" ELSE "free"

\* _mutex.unlock() on both paths of a turn: after the pop (found) and on an empty queue
Unlock(found) == "free"

\* variant: a pass that found every queue empty stamps the rate window all the same
WorkerScan_wasted ==
    /\ wpc = "scan"
    /\ mutex = "free"
    /\ mutex' = Unlock(queues[QueueAt(wq)] # <<>>)
    /\ IF queues[QueueAt(wq)] # <<>>
       THEN /\ publish_t' = [publish_t EXCEPT ![i] = now]
            /\ i' = (i + 1) % burst_rate
            /\ event' = Front(queues[QueueAt(wq)])
            /\ queues' = Pop(queues, QueueAt(wq))
            /\ wpc' = "wait"
            /\ promise' = "pending"
            /\ sent' = Append(sent, [id |-> Front(queues[QueueAt(wq)]).id,
                                     level |-> Front(queues[QueueAt(wq)]).level,
                                     t |-> clock])
            /\ UNCHANGED <<wq, now, wSeen, tDenied>>
       ELSE /\ IF wq + 1 < NumQueues
               THEN /\ wq' = wq + 1
                    /\ UNCHANGED <<wpc, now, wSeen, tDenied>>
               ELSE /\ wq' = 0
                    /\ wpc' = "top"
                    /\ now' = 0
                    /\ wSeen' = 0
                    /\ UNCHANGED tDenied
            /\ publish_t' = IF wq + 1 < NumQueues THEN publish_t
                             ELSE [publish_t EXCEPT ![i] = now]
            /\ i' = IF wq + 1 < NumQueues THEN i ELSE (i + 1) % burst_rate
            /\ UNCHANGED <<event, queues, promise, sent>>
    /\ UNCHANGED <<running, ctlVars, pending, clock, accepted, last, cbs>>
    /\ handed' = IF queues[QueueAt(wq)] # <<>>
                  THEN handed \cup {HandOver(Front(queues[QueueAt(wq)]).id, "transport")}
                  ELSE handed
    /\ UNCHANGED <<buf, store, given>>
    /\ late' = IF tracing /\ queues[QueueAt(wq)] # <<>> /\ ~running THEN late + 1 ELSE late
    /\ emptied' = (tracing /\ queues[QueueAt(wq)] = <<>> /\ wq + 1 = NumQueues)
    /\ UNCHANGED raceVars
    /\ UNCHANGED tracing

\* one turn of for(auto &queue : _queues): lock, inspect, pop or move on, unlock
WorkerScan ==
    /\ wpc = "scan"
    /\ mutex = "free"
    /\ mutex' = Unlock(queues[QueueAt(wq)] # <<>>)
    /\ IF queues[QueueAt(wq)] # <<>>
       THEN /\ publish_t' = [publish_t EXCEPT ![i] = now]
            /\ i' = (i + 1) % burst_rate
            /\ event' = Front(queues[QueueAt(wq)])
            /\ queues' = Pop(queues, QueueAt(wq))
            /\ wpc' = "wait"
            /\ promise' = "pending"
            /\ sent' = Append(sent, [id |-> Front(queues[QueueAt(wq)]).id,
                                     level |-> Front(queues[QueueAt(wq)]).level,
                                     t |-> clock])
            /\ UNCHANGED <<wq, now, wSeen, tDenied>>
       ELSE /\ IF wq + 1 < NumQueues
               THEN /\ wq' = wq + 1
                    /\ UNCHANGED <<wpc, now, wSeen, tDenied>>
               ELSE /\ wq' = 0
                    /\ wpc' = "top"
                    /\ now' = 0
                    /\ wSeen' = 0
                    /\ UNCHANGED tDenied
            /\ UNCHANGED <<publish_t, i, event, queues, promise, sent>>
    /\ UNCHANGED <<running, ctlVars, pending, clock, accepted, last, cbs>>
    /\ handed' = IF queues[QueueAt(wq)] # <<>>
                  THEN handed \cup {HandOver(Front(queues[QueueAt(wq)]).id, "transport")}
                  ELSE handed
    /\ UNCHANGED <<buf, store, given>>
    /\ late' = IF tracing /\ queues[QueueAt(wq)] # <<>> /\ ~running THEN late + 1 ELSE late
    /\ emptied' = (tracing /\ queues[QueueAt(wq)] = <<>> /\ wq + 1 = NumQueues)
    /\ UNCHANGED raceVars
    /\ UNCHANGED tracing

\* the transport resolves the promise of Particle.publish()
PromiseDone(err) ==
    /\ wpc = "wait"
    /\ promise = "pending"
    /\ promise' = err
    /\ UNCHANGED <<running, queues, mutex, wpc, now, publish_t, i, wq, event,
                   ctlVars, pending, clock, histVars>>
    /\ UNCHANGED copyVars
    /\ UNCHANGED <<raceVars, late, emptied>>
    /\ UNCHANGED tracing

\* a process_publish() that puts a request whose publish failed back at the tail
WorkerCallback_retry ==
    /\ wpc = "wait"
    /\ promise \in TransportErrors
    /\ cbs' = Append(cbs, [id |-> event.id, level |-> event.level, status |-> promise])
    /\ queues' = IF promise = "NONE" THEN queues
                  ELSE [queues EXCEPT ![event.level] = Append(@, event)]
    /\ promise' = "idle"
    /\ event' = NoEvent
    /\ wpc' = "top"
    /\ now' = 0
    /\ wq' = 0
    /\ wSeen' = 0
    /\ UNCHANGED <<running, mutex, publish_t, i,
                   ctlVars, pending, clock, accepted, last, sent, tDenied>>
    /\ handed' = handed \cup {HandOver(event.id, "callback")}
    /\ UNCHANGED <<buf, store, given>>
    /\ UNCHANGED <<raceVars, late, emptied>>
    /\ UNCHANGED tracing

\* a process_publish() that reports CANCELLED when the publisher was stopped meanwhile
WorkerCallback_cancel ==
    /\ wpc = "wait"
    /\ promise \in TransportErrors
    /\ cbs' = IF event.cb
              THEN Append(cbs, [id |-> event.id, level |-> event.level,
                                status |-> IF running THEN promise ELSE CANCELLED])
              ELSE cbs
    /\ promise' = "idle"
    /\ event' = NoEvent
    /\ wpc' = "top"
    /\ now' = 0
    /\ wq' = 0
    /\ wSeen' = 0
    /\ UNCHANGED <<running, queues, mutex, publish_t, i,
                   ctlVars, pending, clock, accepted, last, sent, tDenied>>
    /\ handed' = IF event.cb THEN handed \cup {HandOver(event.id, "callback")}
                  ELSE handed
    /\ UNCHANGED <<buf, store, given>>
    /\ UNCHANGED <<raceVars, late, emptied>>
    /\ UNCHANGED tracing

\* variant: no break after process_publish(), the for loop goes on to the next queue
WorkerCallback_nobreak ==
    /\ wpc = "wait"
    /\ promise \in TransportErrors
    /\ cbs' = IF event.cb THEN Append(cbs, [id |-> event.id, level |-> event.level,
                                         status |-> promise])
              ELSE cbs
    /\ promise' = "idle"
    /\ event' = NoEvent
    /\ wpc' = IF wq + 1 < NumQueues THEN "scan" ELSE "top"
    /\ now' = IF wq + 1 < NumQueues THEN now ELSE 0
    /\ wq' = IF wq + 1 < NumQueues THEN wq + 1 ELSE 0
    /\ wSeen' = IF wq + 1 < NumQueues THEN wSeen ELSE 0
    /\ UNCHANGED <<running, queues, mutex, publish_t, i,
                   ctlVars, pending, clock, accepted, last, sent, tDenied>>
    /\ handed' = IF event.cb THEN handed \cup {HandOver(event.id, "callback")}
                  ELSE handed
    /\ UNCHANGED <<buf, store, given>>
    /\ UNCHANGED <<raceVars, late, emptied>>
    /\ UNCHANGED tracing

\* process_publish(): promise.isDone(), then the completion callback; break; delay(2)
WorkerCallback ==
    /\ wpc = "wait"
    /\ promise \in TransportErrors
    /\ cbs' = IF event.cb THEN Append(cbs, [id |-> event.id, level |-> event.level,
                                         status |-> promise])
              ELSE cbs
    /\ promise' = "idle"
    /\ event' = NoEvent
    /\ wpc' = "top"
    /\ now' = 0
    /\ wq' = 0
    /\ wSeen' = 0
    /\ UNCHANGED <<running, queues, mutex, publish_t, i,
                   ctlVars, pending, clock, accepted, last, sent, tDenied>>
    /\ handed' = IF event.cb THEN handed \cup {HandOver(event.id, "callback")}
                  ELSE handed
    /\ UNCHANGED <<buf, store, given>>
    /\ UNCHANGED <<raceVars, late, emptied>>
    /\ UNCHANGED tracing

\* variant: a refused pass starts the interval of the rate window anew
WorkerDelay_stamp ==
    /\ wpc = "denied"
    /\ wpc' = "top"
    /\ now' = 0
    /\ publish_t' = [publish_t EXCEPT ![i] = now]
    /\ UNCHANGED <<running, queues, mutex, i, wq, event, promise,
                   ctlVars, pending, clock, histVars>>
    /\ UNCHANGED copyVars
    /\ UNCHANGED <<raceVars, late, emptied>>
    /\ UNCHANGED tracing

\* delay(2) after the rate test failed
WorkerDelay ==
    /\ wpc = "denied"
    /\ wpc' = "top"
    /\ now' = 0
    /\ UNCHANGED <<running, queues, mutex, publish_t, i, wq, event, promise,
                   ctlVars, pending, clock, histVars>>
    /\ UNCHANGED copyVars
    /\ UNCHANGED <<raceVars, late, emptied>>
    /\ UNCHANGED tracing

\* the steps of the worker thread and of the transport it waits for
Worker(errs) ==
    \/ WorkerLoop
    \/ WorkerScan
    \/ \E err \in errs : PromiseDone(err)
    \/ WorkerCallback
    \/ WorkerDelay

\* the steps of n callers of publish(), which pass a callback or none as cs says
Publish(n, cs) ==
    \/ \E priority \in Priorities, cb \in cs : PublishBegin(n, priority, cb)
    \/ \E arg \in BagToSet(pending) : PublishLocked(arg)

\* Concurrent callers of publish(), each passing a completion callback; a transport that
\* succeeds or fails; the clock moves on by one interval while the worker sleeps on the
\* rate limit (the clock is read nowhere else, so this loses no order of the other steps).
Next ==
    \/ TickAsleep(process_interval)
    \/ Publish(Cardinality(Callers), {TRUE})
    \/ Start
    \/ Stop
    \/ Join
    \/ Cleanup
    \/ CleanupItem
    \/ Worker(TransportErrors)

Spec == Init /\ [][Next]_vars

\* The publisher is started and stays running, with one caller of publish(); the clock
\* moves freely in steps of half an interval.
NextRate ==
    \/ Tick(ClockStep)
    \/ Publish(1, {TRUE})
    \/ Start
    \/ Worker({"NONE"})

SpecRate == Init /\ [][NextRate]_vars

\* As SpecRate, with a caller that publishes one request at a time: only when every
\* queue is empty and the worker is between two dispatches.
NextSerial ==
    \/ Tick(ClockStep)
    \/ (AllEmpty(queues) /\ wpc \in {"top", "denied"} /\ Publish(1, {TRUE}))
    \/ Start
    \/ Worker({"NONE"})

SpecSerial == Init /\ [][NextSerial]_vars

\* The publisher is started and stays running; one caller of publish() passes a
\* completion callback or none; cleanup() is called directly, at any time; the transport
\* succeeds.
NextCb ==
    \/ TickAsleep(process_interval)
    \/ Publish(1, BOOLEAN)
    \/ Start
    \/ Cleanup
    \/ CleanupItem
    \/ Worker({"NONE"})

SpecCb == Init /\ [][NextCb]_vars

\* The publisher is started and stays running, with one caller of publish() and a
\* transport that answers every publish, with success or with an error. The worker
\* thread keeps being scheduled, the transport keeps answering, and the clock keeps
\* moving while the worker sleeps on the rate limit. Time is counted only while a
\* request waits, and one interval at most per sleep, so that the modelled span of
\* MaxTicks intervals is not used up by an idle or oversleeping publisher. The clock is read as moving only during the worker's sleep, which
\* the worker enters and leaves again and again, hence the strong fairness of the tick.
TickWaiting == ~AllEmpty(queues) /\ now = clock /\ TickAsleep(process_interval)

NextLive ==
    \/ TickWaiting
    \/ Publish(1, {TRUE})
    \/ Start
    \/ Worker(TransportErrors)

\* One caller of publish(), of priority 0 and with a callback, that changes its buffers
\* between its calls; the publisher is started and stopped, the transport succeeds.
NextCopy ==
    \/ TickAsleep(process_interval)
    \/ \E b \in Buffers : Overwrite(b)
    \/ PublishBegin(1, 0, TRUE)
    \/ \E arg \in BagToSet(pending) : PublishLocked(arg)
    \/ Start
    \/ Stop
    \/ Join
    \/ CleanupItem
    \/ Worker({"NONE"})

SpecCopy == Init /\ [][NextCopy]_vars

\* The dispatch of requests whose callers reuse their buffers, with a transport that
\* may fail: no stop(), so that every callback comes from process_publish().
NextDispatch ==
    \/ TickAsleep(process_interval)
    \/ \E b \in Buffers : Overwrite(b)
    \/ PublishBegin(1, 0, TRUE)
    \/ \E arg \in BagToSet(pending) : PublishLocked(arg)
    \/ Start
    \/ Worker(TransportErrors)

SpecDispatch == Init /\ [][NextDispatch]_vars

\* the steps of the worker thread itself; the transport's answer is not one of them
WorkerStep == WorkerLoop \/ WorkerScan \/ WorkerCallback \/ WorkerDelay

\* the steps of the thread that is inside stop()
StopStep == Join \/ CleanupItem

\* start() and stop() around a worker whose transport may never answer: the worker and
\* the caller of stop() are scheduled fairly, the transport is under no obligation.
NextStop ==
    \/ TickWaiting
    \/ Publish(1, {TRUE})
    \/ Start
    \/ Stop
    \/ Join
    \/ CleanupItem
    \/ WorkerLoop
    \/ WorkerScan
    \/ WorkerCallback
    \/ WorkerDelay
    \/ PromiseDone("NONE")

\* cleanup() called by stop() and called directly, with callbacks that return at once
\* and callbacks that publish again before they return.
NextCleanup ==
    \/ TickAsleep(process_interval)
    \/ Publish(1, {TRUE})
    \/ Start
    \/ Stop
    \/ Join
    \/ Cleanup
    \/ CleanupItem
    \/ \E priority \in Priorities : CleanupItemRepublish(priority)
    \/ Worker({"NONE"})

SpecCleanup == Init /\ [][NextCleanup]_vars

SpecStop ==
    /\ Init /\ [][NextStop]_vars
    /\ WF_vars(WorkerStep)
    /\ WF_vars(StopStep)

\* Two threads call start() and one of them stop(), at any time; one caller of
\* publish(). A run is followed up to the creation of a second worker thread.
NextCtl ==
    \/ (extra = 0 /\ TickAsleep(process_interval))
    \/ (extra = 0 /\ Publish(1, {TRUE}))
    \/ (extra = 0 /\ Start)
    \/ (extra = 0 /\ StartTest)
    \/ (extra = 0 /\ StartCreate)
    \/ (extra = 0 /\ Stop)
    \/ (extra = 0 /\ Join)
    \/ (extra = 0 /\ CleanupItem)
    \/ (extra = 0 /\ Worker({"NONE"}))

SpecCtl == Init /\ [][NextCtl]_vars

\* One caller of publish(), each call with a callback; a transport that succeeds; the
\* publisher is started and stopped; the histories late and emptied are kept.
NextTraced ==
    \/ TickAsleep(process_interval)
    \/ Publish(1, {TRUE})
    \/ Start
    \/ Stop
    \/ Join
    \/ CleanupItem
    \/ Worker({"NONE"})

SpecTraced == InitTraced /\ [][NextTraced]_vars

SpecLive ==
    /\ Init /\ [][NextLive]_vars
    /\ SF_vars(TickWaiting)
    /\ WF_vars(Worker(TransportErrors))

\* ---- properties ----
\* a step in which a publish() call returns; last' then describes that call
CallReturns == last' # last \/ BagCardinality(pending') < BagCardinality(pending)
\* a step in which a publish() call returns from under the mutex
LockedReturns == BagCardinality(pending') < BagCardinality(pending)
\* a step in which a publish() call returns before it takes the mutex
EarlyReturns == last' # last /\ pending' = pending
\* a step in which a publish() call passes the checks made before the mutex
PassesChecks == BagCardinality(pending') > BagCardinality(pending)
\* the callbacks the worker made (those of cleanup() carry CANCELLED)
IsDispatched(c) == c.status # CANCELLED
Dispatched == SelectSeq(cbs, IsDispatched)
IsCancelled(c) == c.status = CANCELLED
Cancelled == SelectSeq(cbs, IsCancelled)
\* requests of one level appear in s in the order they were accepted
Fifo(s) == \A k, m \in 1 .. Len(s) :
    (k < m /\ s[k].level = s[m].level) => s[k].id < s[m].id
\* the position of request id in the log of transport publishes (0: not there)
SentPos(id) == IF \E k \in 1 .. Len(sent) : sent[k].id = id
               THEN CHOOSE k \in 1 .. Len(sent) : sent[k].id = id
               ELSE 0

\* C1: a publish() call whose priority is >= NumQueues returns false and leaves
\* every queue as it was, whatever the run state and the fill of the queues; such a
\* call never gets as far as the mutex.
C1_InvalidPriorityRejected ==
    [][/\ (CallReturns /\ last'.level >= NumQueues)
           => (~Returned(last'.pc) /\ queues' = queues /\ accepted' = accepted)
       /\ \A arg \in BagToSet(pending') : arg.level < NumQueues]_vars
\* an invalid priority was just refused while running, one queue full, one not
C1_Witness ==
    /\ last.pc = "badprio" /\ last.level >= NumQueues /\ running
    /\ \E l \in Levels : Len(queues[l]) = maxEntries
    /\ \E l \in Levels : Len(queues[l]) < maxEntries

\* C2: a publish() call that finds maxEntries requests in the queue of its level
\* returns false and leaves the queues as they were; one that finds fewer (as after a
\* dequeue by the worker) returns true; and while running no call with a valid
\* priority is refused before the size test.
C2_FullQueueRejects ==
    [][/\ LockedReturns =>
             IF Len(queues[last'.level]) >= maxEntries
             THEN ~Returned(last'.pc) /\ queues' = queues /\ accepted' = accepted
             ELSE Returned(last'.pc)
       /\ (EarlyReturns /\ running) => last'.level >= NumQueues]_vars
\* maxEntries + 1 requests were accepted, all at one level; the worker has taken one of
\* them and nothing was cancelled, so the last was accepted after the dequeue; the
\* queue is full again
C2_Witness ==
    /\ last.pc = "ok" /\ accepted = maxEntries + 1
    /\ Len(queues[last.level]) = maxEntries
    /\ Len(sent) = 1 /\ sent[1].level = last.level
    /\ Cancelled = <<>>
    /\ queues[last.level][maxEntries].id = accepted

\* C3: no queue ever holds more than maxEntries requests, however the callers of
\* publish(), the worker and the controller interleave.
C3_QueueBounded == \A l \in Levels : Len(queues[l]) <= maxEntries
\* a queue is full while a caller stands at the mutex, which cleanup() holds, and the
\* worker is in its scan
C3_Witness ==
    /\ cpc = "cleanup" /\ Len(queues[cq]) = maxEntries
    /\ \E arg \in BagToSet(pending) : arg.level = cq
    /\ wpc = "scan"

\* C4: while running is false no publish() call gets past the first test: a call made
\* then returns false, and the queues and the count of accepted requests stay as they
\* were.
C4_StoppedRejects ==
    [][~running => /\ ~PassesChecks
                   /\ EarlyReturns => /\ ~Returned(last'.pc)
                                       /\ queues' = queues
                                       /\ accepted' = accepted]_vars
\* a call with a valid priority was refused after stop() had completed, the queues
\* empty, requests having been accepted before
C4_Witness ==
    /\ last.pc = "stopped" /\ last.level < NumQueues
    /\ ~running /\ cpc = "idle" /\ wpc = "none"
    /\ accepted > 0 /\ AllEmpty(queues)

\* C5: a publish() call that returns true has appended exactly one request, with the
\* call's arguments and a fresh identity, at the tail of the queue of its level; the
\* other queues are as they were.
C5_AcceptAppendsAtTail ==
    [][(CallReturns /\ Returned(last'.pc)) =>
          /\ LockedReturns
          /\ accepted' = accepted + 1
          /\ queues'[last'.level] =
                 Append(queues[last'.level],
                        [id |-> accepted', level |-> last'.level, cb |-> last'.cb])
          /\ \A l \in Levels \ {last'.level} : queues'[l] = queues[l]]_vars
\* the call accepted last stands at the tail behind an older request, the other
\* queue holding a request too
C5_Witness ==
    /\ last.pc = "ok"
    /\ Len(queues[last.level]) = 2
    /\ queues[last.level][2].id = accepted
    /\ \E l \in Levels \ {last.level} : queues[l] # <<>>

\* C6: a publish() call that returned false leaves no request behind: every request
\* queued, in flight, handed to the transport or reported to a callback is one of the
\* accepted ones (identities 1 .. accepted), each at most once.
C6_RejectedLeavesNoTrace ==
    /\ \A e \in Queued(queues) : e.id \in 1 .. accepted
    /\ Ids(sent) \subseteq 1 .. accepted
    /\ Ids(cbs) \subseteq 1 .. accepted
    /\ wpc = "wait" => event.id \in 1 .. accepted
    /\ Cardinality(Ids(sent)) = Len(sent)
    /\ Cardinality(Ids(cbs)) = Len(cbs)
\* the call that returned last was refused by a full queue; since then the queues were
\* drained by the worker and by cleanup(), and every accepted request is accounted for
C6_Witness ==
    /\ last.pc = "full"
    /\ AllEmpty(queues) /\ wpc # "wait" /\ pending = EmptyBag
    /\ Len(sent) >= 1 /\ Len(Cancelled) >= 1
    /\ Len(sent) + Len(Cancelled) = accepted
    /\ Len(cbs) = accepted

\* C7: the requests of one level are handed to the transport, and their callbacks
\* invoked by the worker, in the order in which they were accepted.
C7_FifoWithinLevel == Fifo(sent) /\ Fifo(Dispatched)
\* two requests of one level were dispatched and reported in their order, a request
\* of the other level accepted in between them
C7_Witness ==
    /\ Len(Dispatched) = 3
    /\ \E k, m, j \in 1 .. Len(sent) :
          /\ k < m /\ sent[k].level = sent[m].level /\ sent[j].level # sent[k].level
          /\ sent[k].id < sent[j].id /\ sent[j].id < sent[m].id

\* C8: when the worker takes a request from a queue, no request that was already
\* queued when the pass began (identity <= wSeen) waits at a level of lower index;
\* and the worker's callbacks come in the order of its transport publishes.
C8_StrictPriority ==
    /\ [][(wpc = "scan" /\ wpc' = "wait") =>
             \A e \in Queued(queues') :
                 e.level < event'.level => e.id > wSeen]_vars
    /\ [](\A k, m \in 1 .. Len(Dispatched) :
             k < m => (/\ SentPos(Dispatched[k].id) > 0
                       /\ SentPos(Dispatched[k].id) < SentPos(Dispatched[m].id)))
\* a level-1 request was accepted first and two level-0 requests after it; the
\* level-0 requests were dispatched and reported first
C8_Witness ==
    /\ Len(sent) = 3
    /\ sent[1].level = 0 /\ sent[2].level = 0 /\ sent[3].level = 1
    /\ sent[3].id = 1
    /\ Len(Dispatched) = 3
    /\ Dispatched[1].id = sent[1].id /\ Dispatched[3].id = 1

\* C9: any burst_rate + 1 consecutive transport publishes span at least
\* process_interval, i.e. at most burst_rate of them start within any window of that
\* length, also across stop() and start(). (Violated: publish_t and i are locals of
\* thread(), zeroed at each start().)
C9_RateLimit ==
    \A k \in 1 .. Len(sent) :
        k + burst_rate <= Len(sent)
            => sent[k + burst_rate].t - sent[k].t >= process_interval

\* the pass has made the rate test at time now, and its outcome
Attempted == wpc \in {"scan", "denied"}
Admitted == wpc = "scan"
\* the times the clock shows
Times == {k * ClockStep : k \in 0 .. (2 * MaxTicks)}
\* For every base time T >= from: a pass at T with the window of a worker just started
\* is admitted; after its dispatch a second pass at T is admitted; after that dispatch
\* a pass at T + process_interval / 2 is refused and a pass at T + process_interval is
\* admitted.
RateSchedule(from) ==
    Attempted => \A T \in Times : T >= from =>
        /\ (publish_t = FreshWindow /\ i = 0 /\ now = T) => Admitted
        /\ (publish_t = [FreshWindow EXCEPT ![0] = T] /\ i = 1 /\ now = T) => Admitted
        /\ (publish_t = [s \in Slots |-> T] /\ i = 0 /\ now = T + ClockStep)
               => ~Admitted
        /\ (publish_t = [s \in Slots |-> T] /\ i = 0 /\ now = T + process_interval)
               => Admitted

\* C10 as stated: with burst_rate = 2, process_interval = 1000 and a worker just
\* started, passes at t = 0, 0, 500, 1000 are admitted, admitted, refused, admitted.
\* (Violated: the window starts as zeros, so the pass at t = 0 is refused.)
C10_FromZero == RateSchedule(0)
\* C10, with the base time at least process_interval: passes at T, T, T + 500 and
\* T + 1000, T >= 1000, are admitted, admitted, refused, admitted.
C10_FromInterval == RateSchedule(process_interval)
\* two dispatches at t = 1000, a pass refused at t = 1500, a third dispatch at t = 2000
C10_Witness ==
    /\ Len(sent) = 3
    /\ sent[1].t = process_interval /\ sent[2].t = process_interval
    /\ tDenied = process_interval + ClockStep
    /\ sent[3].t = 2 * process_interval
    /\ publish_t = [FreshWindow EXCEPT ![0] = 2 * process_interval,
                                        ![1] = process_interval]

\* a step in which the worker begins a pass: it reads the clock and makes the rate test
PassBegins == wpc = "top" /\ wpc' \in {"scan", "denied"}

C13_AtMostOnce ==
    /\ Ids(sent) \cap Ids(Cancelled) = {}
    /\ \A k, m \in 1 .. Len(sent) : sent[k].id = sent[m].id => k = m
    /\ \A k, m \in 1 .. Len(cbs) : cbs[k].id = cbs[m].id => k = m
    /\ \A e \in Queued(queues) : e.id \notin Ids(sent) \cup Ids(cbs)
    /\ wpc = "wait" => (event.id \in Ids(sent) /\ event.id \notin Ids(cbs))
\* cleanup(), called while a dispatch is in flight, has cancelled one request and holds
\* the mutex for the next
C13_Witness ==
    /\ cpc = "cleanup" /\ wpc = "wait" /\ running
    /\ Len(Cancelled) >= 1
    /\ event.id \notin Ids(Cancelled)

\* C14: once stop() has returned and every publish() call has returned, each accepted
\* request has had its callback invoked and no queue holds a request. (Violated: a
\* publish() that read running before stop() takes the mutex after cleanup() and
\* enqueues.)
C14_NothingLeftAfterStop ==
    (~running /\ cpc = "idle" /\ pending = EmptyBag)
        => (AllEmpty(queues) /\ Ids(cbs) = 1 .. accepted)

\* a step in which process_publish() returns: the callback has been invoked
DispatchEnds == wpc = "wait" /\ wpc' = "top"

\* C15: a dispatch whose publish failed is reported once, through the callback of its
\* request, with the error of the transport; the request is not queued again or
\* published again; the queues and the rate window are left as they were, and every
\* request queued after a failure is published in its turn.
C15_FailureReportedOnce ==
    /\ [][(DispatchEnds /\ promise # "NONE")
             => (/\ promise \in TransportErrors
                 /\ cbs' = Append(cbs, [id |-> event.id, level |-> event.level,
                                        status |-> promise])
                 /\ queues' = queues /\ sent' = sent
                 /\ publish_t' = publish_t /\ i' = i /\ running' = running)]_vars
    /\ [](\A k \in 1 .. Len(cbs) :
             /\ \A e \in Queued(queues) : e.id # cbs[k].id
             /\ \A m \in 1 .. Len(sent) : SentPos(sent[m].id) = m
             /\ IsDispatched(cbs[k]) => (wpc = "wait" => event.id # cbs[k].id))
    /\ \A id \in 1 .. MaxRequests :
          ((\E k \in 1 .. Len(cbs) : cbs[k].status # "NONE")
              /\ (\E e \in Queued(queues) : e.id = id))
          ~> (id \in Ids(sent))
\* the first dispatch failed; two more requests, one of its level and one of the other,
\* were published after it and succeeded
C15_Witness ==
    /\ Len(cbs) = 3 /\ Len(sent) = 3
    /\ cbs[1].status = "LIMIT_EXCEEDED"
    /\ cbs[2].status = "NONE" /\ cbs[3].status = "NONE"
    /\ \E k, m \in 2 .. 3 : cbs[k].level = cbs[1].level /\ cbs[m].level # cbs[1].level

\* C16: start() on a running publisher and stop() on a stopped one change nothing: no
\* thread is created, none is joined, no queue is touched, no callback is called. The
\* publisher starts running only in a start() called while stopped, which creates the
\* one worker thread, and stops running only in a stop() called while running, which
\* goes on to the join. A worker thread appears and a join begins in no other step.
C16_StartStopIdempotent ==
    [][/\ (running /\ Start) => UNCHANGED vars
       /\ (~running /\ Stop) => UNCHANGED vars
       /\ (~running /\ running') =>
             (/\ cpc = "idle" /\ cpc' = "idle"
              /\ wpc = "none" /\ wpc' = "top"
              /\ UNCHANGED <<queues, mutex, pending, sent, cbs>>)
       /\ (running /\ ~running') =>
             (/\ cpc = "idle" /\ cpc' = "join"
              /\ UNCHANGED <<queues, mutex, pending, sent, cbs, workerVars>>)
       /\ (wpc = "none" /\ wpc' # "none") => (~running /\ running')
       /\ (cpc # "join" /\ cpc' = "join") => (running /\ ~running')]_vars

\* start() can be called on a publisher that was stopped and started again, while its
\* worker waits for the transport with a request still queued
C16_Witness ==
    /\ running /\ cpc = "idle"
    /\ wpc = "wait"
    /\ ~AllEmpty(queues)
    /\ Cancelled # <<>>
    /\ publish_t # FreshWindow

\* C17: stop() cancels only after the join. From the moment the cleanup of a stop()
\* holds the queues until the publisher is started again, the worker thread has left
\* thread(): it is in no pass, no publish is awaited, and none begins. A step that
\* delivers a cancellation on a stopped publisher finds and leaves the worker gone, and
\* leaves the list of publishes as it was.
C17_CancelAfterWorkerExit ==
    /\ []((~running /\ cpc \in {"cleanup", "idle"}) => (wpc = "none" /\ promise = "idle"))
    /\ [][(~running /\ Cancelled' # Cancelled) =>
             (/\ cpc = "cleanup"
              /\ wpc = "none" /\ wpc' = "none"
              /\ sent' = sent)]_vars
    /\ [][(cpc = "join" /\ cpc' # "join") => (wpc = "none" /\ ~running)]_vars

\* the cleanup of a stop() has cancelled one request and holds another, after the worker
\* published a first one and delivered its callback
C17_Witness ==
    /\ ~running /\ cpc = "cleanup"
    /\ Len(sent) = 1 /\ Len(Dispatched) = 1
    /\ Len(Cancelled) = 1
    /\ ~AllEmpty(queues)

\* C18: the worker thread holds the mutex only within a turn of its scan, which ends
\* with the unlock on both of its paths: the mutex is never the worker's while it waits
\* for the transport, calls the callback, or sleeps, and no step of the worker changes
\* its holder. While a publish is awaited the mutex is free unless a cleanup() holds it,
\* so that a call of publish() waiting for the lock can take it and return.
C18_LockOnlyForScan ==
    /\ [](/\ mutex # "worker"
          /\ (mutex = "ctl") <=> (cpc = "cleanup")
          /\ (wpc = "wait" /\ cpc # "cleanup") =>
                \A arg \in BagToSet(pending) : ENABLED PublishLocked(arg))
    /\ [][(workerVars' # workerVars /\ running' = running) => mutex' = mutex]_vars

\* the transport has not answered yet for the request the worker popped, and the queue
\* of that request is full again: a publish() was accepted in it after the pop
C18_Witness ==
    /\ wpc = "wait" /\ promise = "pending"
    /\ Len(queues[event.level]) = maxEntries
    /\ mutex = "free"

\* h holds the first max characters of g, all of g if it has no more
IsCut(h, g, max) ==
    /\ Len(h) = Min(Len(g), max)
    /\ \A k \in 1 .. Len(h) : h[k] = g[k]

\* C19 as stated: every name and payload passed to the transport or to a callback is
\* what the caller's buffers held at the publish() of that request (no payload being
\* passed on as the empty string).
C19_AsGiven ==
    \A h \in handed :
       /\ h.name = given[h.id].name
       /\ h.data = IF given[h.id].data = NULL THEN <<>> ELSE given[h.id].data

\* C19: every name and payload passed to the transport or to a callback, of a publish
\* or of a cancellation, is what the caller's buffers held at the publish() of that
\* request, cut to MAX_EVENT_NAME_LENGTH and MAX_EVENT_DATA_LENGTH characters, and the
\* empty string for no payload, whatever the caller's buffers hold by then.
C19_CopiedAtPublish ==
    \A h \in handed :
       /\ h.id \in 1 .. Len(given)
       /\ IsCut(h.name, given[h.id].name, MAX_EVENT_NAME_LENGTH)
       /\ IF given[h.id].data = NULL
          THEN h.data = <<>>
          ELSE IsCut(h.data, given[h.id].data, MAX_EVENT_DATA_LENGTH)

\* stop() has cancelled a request whose name and payload were too long, with another
\* request still queued that was published later from the same buffers, changed in
\* between; an earlier request went to the transport and to its callback
C19_Witness ==
    /\ ~running /\ cpc = "cleanup"
    /\ \E c \in Range(Cancelled), e \in Queued(queues) :
          /\ c.id < e.id
          /\ given[c.id] # given[e.id]
          /\ Len(given[c.id].name) > MAX_EVENT_NAME_LENGTH
          /\ Len(given[c.id].data) > MAX_EVENT_DATA_LENGTH
          /\ \E h \in handed : h.id = c.id /\ h.to = "callback"
    /\ \E d \in Range(Dispatched) :
          /\ given[d.id] # buf
          /\ \E h \in handed : h.id = d.id /\ h.to = "transport"
          /\ \E h \in handed : h.id = d.id /\ h.to = "callback"

\* C20 as stated: a request is cancelled only within stop(), that is, with running
\* cleared and the worker gone; no request that went to the transport is cancelled.
C20_OnlyAtStop ==
    /\ [][Cancelled' # Cancelled => (~running /\ wpc = "none")]_vars
    /\ [](\A k \in 1 .. Len(cbs) : cbs[k].id \in Ids(sent) => IsDispatched(cbs[k]))

\* C20: a request is cancelled only by a turn of cleanup(), which stop() enters after
\* the join and which can also be called directly, on a running publisher too; the
\* request cancelled is the head of a queue, never one that went to the transport. A
\* request the worker has popped gets its callback with the status of the transport,
\* also when stop() or cleanup() was called in the meantime.
C20_CancelOnlyQueued ==
    /\ [][Cancelled' # Cancelled =>
             (/\ cpc = "cleanup" /\ mutex = "ctl"
              /\ queues[cq] # <<>>
              /\ Cancelled' = Append(Cancelled, [id |-> Head(queues[cq]).id,
                                                  level |-> Head(queues[cq]).level,
                                                  status |-> CANCELLED])
              /\ Head(queues[cq]).id \notin Ids(sent)
              /\ queues' = [queues EXCEPT ![cq] = Tail(@)]
              /\ sent' = sent)]_vars
    /\ [][(cpc # "cleanup" /\ cpc' = "cleanup") =>
             \/ cpc = "join" /\ ~running /\ wpc = "none"
             \/ cpc = "idle"]_vars
    /\ [][(DispatchEnds /\ event.cb) =>
             (/\ promise \in TransportErrors
              /\ cbs' = Append(cbs, [id |-> event.id, level |-> event.level,
                                      status |-> promise]))]_vars
    /\ [](\A k \in 1 .. Len(cbs) : cbs[k].id \in Ids(sent) => IsDispatched(cbs[k]))

\* on a running publisher a request was cancelled by cleanup() while an earlier request
\* of its level was with the transport; that one got the status of the transport later
C20_Witness ==
    /\ running
    /\ \E k, m \in 1 .. Len(cbs) :
          /\ k < m
          /\ IsCancelled(cbs[k])
          /\ cbs[m].status \in TransportErrors
          /\ cbs[m].level = cbs[k].level
          /\ cbs[m].id < cbs[k].id

\* the threads that run thread()
Workers == (IF wpc = "none" THEN 0 ELSE 1) + extra

\* C21: at most one worker thread exists at any moment, and exactly one while running
\* is set, with start() and stop() called by threads whose calls overlap.
C21_OneWorker ==
    /\ Workers <= 1
    /\ running => Workers = 1

\* C22 as stated: a pass that passed the rate test and found every queue empty puts
\* its time in place of the oldest time of the rate window.
C22_SlotConsumed ==
    [][(wpc = "scan" /\ emptied') =>
         (/\ publish_t' = [publish_t EXCEPT ![i] = now]
          /\ i' = (i + 1) % burst_rate)]_vars

\* C22: a pass that passed the rate test and found every queue empty leaves the rate
\* window, the queues and the histories of publishes and callbacks as they were: the
\* window holds times of publishes only, and the pass that follows passes the rate test
\* again, so that a request queued in between is published by it without a wait.
C22_EmptyPassKeepsWindow ==
    /\ [][(wpc = "scan" /\ emptied') =>
             (/\ publish_t' = publish_t /\ i' = i
              /\ queues' = queues /\ queues[QueueAt(wq)] = <<>>
              /\ sent' = sent /\ cbs' = cbs)]_vars
    /\ [][(emptied /\ running /\ wpc = "top" /\ wpc' # "top") => wpc' = "scan"]_vars
    /\ [](wpc # "none" =>
            \A s \in Slots : publish_t[s] = 0 \/ \E k \in 1 .. Len(sent) : sent[k].t = publish_t[s])

\* a request was published at this time, the pass after it found every queue empty, and a
\* request has been queued since: the window holds one time, not two
C22_Witness ==
    /\ emptied /\ running /\ wpc = "top"
    /\ ~AllEmpty(queues)
    /\ Len(sent) = burst_rate - 1
    /\ sent[1].t = clock
    /\ Admit(clock, publish_t[i])

\* C23: a pass that the rate test refuses goes from the test to the delay and back to
\* the top of the loop; neither step takes the mutex, touches a queue, calls the
\* transport or a callback, or writes the rate window, and nothing is published and the
\* window stays as it is for as long as the worker is in that pass.
C23_DeniedPassChangesNothing ==
    /\ [][(running /\ wpc = "top" /\ wpc' # "top" /\ ~Admit(clock, publish_t[i])) =>
             (/\ wpc' = "denied"
              /\ UNCHANGED <<queues, mutex, sent, cbs, handed, publish_t, i, event,
                             promise>>)]_vars
    /\ [][(wpc = "denied" /\ wpc' # "denied") =>
             (/\ wpc' = "top"
              /\ UNCHANGED <<queues, mutex, sent, cbs, handed, publish_t, i, event,
                             promise>>)]_vars
    /\ [][wpc = "denied" =>
             (sent' = sent /\ Dispatched' = Dispatched /\ publish_t' = publish_t /\ i' = i)]_vars

\* the worker is back at the top of its loop after a pass refused at this time, with the
\* window full of publishes made less than an interval ago and a request waiting
C23_Witness ==
    /\ running /\ wpc = "top"
    /\ tDenied = clock
    /\ ~AllEmpty(queues)
    /\ Len(sent) = burst_rate
    /\ \A s \in Slots : publish_t[s] < clock /\ clock - publish_t[s] < process_interval

\* C24: at the step in which the worker takes a request of a level out of its queue,
\* the queues of all levels of lower index are empty.
C24_AtomicSelection ==
    [][(wpc = "scan" /\ wpc' = "wait") =>
         \A l \in Levels : l < event'.level => queues[l] = <<>>]_vars

\* C25: a pass of the worker publishes one request at most. A request goes to the
\* transport only in a turn of the scan, which takes the head of the queue it is at,
\* leaves the other queues alone and ends the scan; the worker then waits, calls that
\* one callback and is back at the top of its loop, and a scan begins only from there,
\* at queue 0.
C25_OnePerPass ==
    /\ [][sent' # sent =>
             (/\ wpc = "scan" /\ wpc' = "wait"
              /\ queues[QueueAt(wq)] # <<>>
              /\ event' = Head(queues[QueueAt(wq)])
              /\ queues' = [queues EXCEPT ![QueueAt(wq)] = Tail(@)]
              /\ sent' = Append(sent, [id |-> event'.id, level |-> event'.level,
                                        t |-> clock])
              /\ \A l \in Levels : l < event'.level =>
                    \A e \in Range(queues[l]) : e.id > wSeen)]_vars
    /\ [][wpc = "wait" => wpc' \in {"wait", "top"}]_vars
    /\ [][Dispatched' # Dispatched =>
             (/\ wpc = "wait" /\ wpc' = "top"
              /\ Dispatched' = Append(Dispatched, [id |-> event.id, level |-> event.level,
                                                    status |-> promise]))]_vars
    /\ [][(wpc # "scan" /\ wpc' = "scan") => (wpc = "top" /\ wq' = 0)]_vars

\* three requests were queued when the pass began (wSeen); the pass has taken the first
\* of level 0 and left the scan, the transport has answered, the other two are queued
C25_Witness ==
    /\ running /\ wpc = "wait" /\ promise = "NONE"
    /\ wSeen = 3
    /\ Len(sent) = 1 /\ event.level = 0 /\ event.id = 2
    /\ cbs = <<>>
    /\ Len(queues[0]) = 1 /\ Len(queues[1]) = 1

\* C26: a request's callback is called only by the worker leaving its wait on the
\* transport, after the transport has reported done, with the error the transport
\* reported; a request is called back at most once, and exactly once when its dispatch
\* has ended; while the transport has not reported done the request in flight has no
\* callback; the callback receives the name and payload the transport received for that
\* request, which are the request's own (the caller's, cut to the limits), and the
\* context given at publish().
C26_CallbackAfterDone ==
    /\ [][cbs' # cbs =>
             (/\ wpc = "wait" /\ wpc' = "top"
              /\ promise \in TransportErrors
              /\ cbs' = Append(cbs, [id |-> event.id, level |-> event.level,
                                      status |-> promise]))]_vars
    /\ [][(wpc = "wait" /\ promise = "pending") => cbs' = cbs]_vars
    /\ [][DispatchEnds => (event.id \in Ids(cbs') /\ event.id \notin Ids(cbs))]_vars
    /\ [](wpc = "wait" => event.id \notin Ids(cbs))
    /\ [](\A k, m \in 1 .. Len(cbs) : cbs[k].id = cbs[m].id => k = m)
    /\ [](\A h \in handed : h.to = "callback" =>
            /\ h.id \in Ids(cbs)
            /\ h.context = given[h.id].context
            /\ IsCut(h.name, given[h.id].name, MAX_EVENT_NAME_LENGTH)
            /\ \E t \in handed : /\ t.to = "transport" /\ t.id = h.id
                                  /\ t.name = h.name /\ t.data = h.data)

\* two requests with different names, payloads and contexts have been called back, one
\* with a transport error and one without, and a third was published since
C26_Witness ==
    /\ Len(cbs) = 2 /\ Len(store) = 3
    /\ cbs[1].status = "NONE" /\ cbs[2].status # "NONE"
    /\ given[cbs[1].id].context # given[cbs[2].id].context
    /\ given[cbs[1].id].name # given[cbs[2].id].name
    /\ given[3] # given[cbs[2].id]
    /\ \A c \in Range(cbs) : \E h \in handed : h.id = c.id /\ h.to = "callback"

\* a request that is in a queue
InQueue(id) == \E e \in Queued(queues) : e.id = id

\* C27: with the publisher running, the clock advancing while requests wait, the
\* transport completing and the worker scheduled fairly, every queued request is
\* eventually handed to the transport once the publishing at the levels below its own
\* has ended (every behaviour accepts finitely many requests, so it always ends); and
\* the only requests dispatched ahead of a request that was queued when a pass began are
\* those of a lower-index queue and those queued before it at its own level, so that a
\* request is kept waiting only by lower-index queues that keep being filled.
C27_EventuallyDispatched ==
    /\ \A id \in 1 .. MaxRequests : InQueue(id) ~> (id \in Ids(sent))
    /\ [][sent' # sent =>
             \A l \in Levels : \A e \in Range(queues[l]) :
                e.id <= wSeen =>
                   \/ event'.level < l
                   \/ (event'.level = l /\ event'.id <= e.id)]_vars
    /\ [][(wpc = "scan" /\ wpc' = "top") => \A id \in 1 .. wSeen : ~InQueue(id)]_vars

\* the request queued first, at level 1, was overtaken by two requests of level 0 queued
\* after it and was dispatched third
C27_Witness ==
    /\ running
    /\ Len(sent) = 3
    /\ sent[1].level = 0 /\ sent[2].level = 0
    /\ sent[3].level = 1 /\ sent[3].id = 1

\* C28: if every transport operation the worker waits on is eventually reported done,
\* a stop() that has cleared running eventually returns, with the publisher stopped and
\* the worker gone; and for as long as the transport operation in flight is not reported
\* done the worker stays in that dispatch, hands nothing further to the transport, calls
\* nothing back, and a stop() waiting in the join stays there.
C28_StopReturns ==
    /\ [](wpc = "wait" => <>(promise # "pending"))
          => ((cpc = "join") ~> (cpc = "idle" /\ ~running /\ wpc = "none"))
    /\ [][(wpc = "wait" /\ promise = "pending" /\ promise' = "pending") =>
             (/\ wpc' = "wait" /\ event' = event
              /\ sent' = sent /\ cbs' = cbs
              /\ \A l \in Levels : Len(queues'[l]) >= Len(queues[l])
              /\ (cpc = "join" => (cpc' = "join" /\ ~running')))]_vars
    /\ [][(cpc = "join" /\ cpc' # "join") => (wpc = "none" /\ ~running)]_vars

\* stop() has cleared running and waits in the join while the worker waits for the
\* transport to answer for a request, another request being queued
C28_Witness ==
    /\ cpc = "join" /\ ~running
    /\ wpc = "wait" /\ promise = "pending"
    /\ ~AllEmpty(queues)

\* C29: once stop() has cleared running, the worker takes at most one more request
\* from the queues, and from the top of its loop it does nothing but leave; when stop()
\* returns the worker is gone, the queues are empty, and every request accepted so far
\* was either handed to the transport or called back by cleanup() with CANCELLED.
C29_AtMostOneLate ==
    /\ [](late <= 1)
    /\ [][(~running /\ sent' # sent) => (late = 0 /\ wpc = "scan")]_vars
    /\ [][(~running /\ wpc = "top" /\ wpc' # "top") => wpc' = "none"]_vars
    /\ [][(cpc # "idle" /\ cpc' = "idle") =>
             (/\ wpc' = "none" /\ ~running'
              /\ AllEmpty(queues')
              /\ \A id \in 1 .. accepted' :
                    /\ id \in Ids(sent') \cup Ids(Cancelled')
                    /\ ~(id \in Ids(sent') /\ id \in Ids(Cancelled')))]_vars

\* stop() waits in the join; the worker has dispatched one request since running was
\* cleared and is back at the top of its loop, and a request is still queued
C29_Witness ==
    /\ cpc = "join" /\ ~running
    /\ late = 1 /\ wpc = "top"
    /\ ~AllEmpty(queues)

\* C30: at the step in which a call of cleanup() returns, whether made by stop() or
\* directly and whatever its callbacks did, every queue is empty.
C30_CleanupDrains ==
    [][(cpc = "cleanup" /\ cpc' = "idle") => AllEmpty(queues')]_vars

====
